---- MODULE Spec2Model ----
(***************************************************************************)
(* Model of the BadgerDB buffer manager, src/BufMgr/src/buffer_modified.cpp *)
(* (class BufMgr): the frame descriptor table, the page pool, the page      *)
(* index, the clock hand, and one action per public operation.              *)
(***************************************************************************)
EXTENDS Integers, Sequences, FiniteSets, TLC

\* ------------------------------------------------------------------ bounds
\* Pool sizes 1..MaxBufs; page numbers 1..MaxPage in file F1 and 1..OtherPages
\* in file F2; pages 1..InitPages exist in each file at construction; a page
\* is pinned at most MaxPin times.
MaxBufs == 2
MaxPage == 2
OtherPages == 1
InitPages == 1
MaxPin == 1
\* The pin-accounting runs: at most MaxCalls calls return normally, and the
\* page is pinned at most MaxPinAcct times.
MaxCalls == 5
MaxPinAcct == 3
\* The exhaustion scenario: page numbers 1..ScenPages in file F1.
ScenPages == 3

\* ------------------------------------------------------------- vocabulary
Files == {"F1", "F2"}
PageIds == 1..MaxPage
NoFile == "NULL"
INVALID_NUMBER == 0
NoFrame == -1

OK == "OK"
BufferExceededException == "BufferExceededException"
PageNotPinnedException == "PageNotPinnedException"
PagePinnedException == "PagePinnedException"
BadBufferException == "BadBufferException"
HashAlreadyPresentException == "HashAlreadyPresentException"
HashNotFoundException == "HashNotFoundException"

VARIABLES numBufs, bufDescTable, bufPool, hashTable, clockHand, files, last, pins, scen

vars == <<numBufs, bufDescTable, bufPool, hashTable, clockHand, files, last, pins, scen>>

Frames == 0..(numBufs - 1)

\* The page numbers of file f the runs use; files[f] is the set of them that
\* is allocated in the file.
PagesOf(f) == IF f = "F1" THEN 1..MaxPage ELSE 1..OtherPages
ScenPagesOf(f) == IF f = "F1" THEN 1..ScenPages ELSE 1..OtherPages

\* ---------------------------------------------------- BufDesc (buffer.h)
\* BufDesc::Clear(): the descriptor of an empty frame.
BufDescClear == [file |-> NoFile, pageNo |-> INVALID_NUMBER, valid |-> FALSE, dirty |-> FALSE, refbit |-> FALSE, pinCnt |-> 0]

\* BufDesc::Set(file, pageNo): install a page in descriptor d.
BufDescSet(d, file, pageNo) == [d EXCEPT !.file = file, !.pageNo = pageNo, !.valid = TRUE, !.refbit = TRUE, !.pinCnt = 1]

\* ------------------------------------------------- BufHashTbl (the index)
\* The index is a set of entries (file, pageNo) -> frameNo.
htHas(ht, file, pageNo) == \E e \in ht : e.file = file /\ e.pageNo = pageNo

\* lookup: the frame of the entry, NoFrame standing for HashNotFoundException.
htLookup(ht, file, pageNo) == IF htHas(ht, file, pageNo) THEN (CHOOSE e \in ht : e.file = file /\ e.pageNo = pageNo).frameNo ELSE NoFrame

htInsert(ht, file, pageNo, frameNo) == ht \cup {[file |-> file, pageNo |-> pageNo, frameNo |-> frameNo]}

\* insert throws HashAlreadyPresentException when the key is present.
htInsertThrows(ht, file, pageNo) == htHas(ht, file, pageNo)

htRemove(ht, file, pageNo) == {e \in ht : ~(e.file = file /\ e.pageNo = pageNo)}

\* ------------------------------------------------------------- I/O events
\* One record per call on the File collaborator or per overwrite of a frame,
\* in program order; `last.log` holds the events of the last operation.
Event(ev, file, pageNo, frame) == [ev |-> ev, file |-> file, pageNo |-> pageNo, frame |-> frame]

\* The result record of the last public operation.  `dirty` is unPinPage's
\* argument; `before` is the descriptor disposePage found in the page's frame.
Result(op, file, pageNo, dirty, before, err, hit, frame, wasValid, steps, handle, newPage, log) == [op |-> op, file |-> file, pageNo |-> pageNo, dirty |-> dirty, before |-> before, err |-> err, hit |-> hit, frame |-> frame, wasValid |-> wasValid, steps |-> steps, handle |-> handle, newPage |-> newPage, log |-> log]

\* ------------------------------------------------------------ advanceClock
\* lines 73-76.
advanceClockMut(hand) == hand
advanceClock(hand) == (hand + 1) % numBufs

\* ---------------------------------------------------------------- allocBuf
\* line 98: the frame under the hand is pinned.
isPinnedMut(d) == FALSE
isPinned(d) == d.pinCnt # 0

\* line 90: the frame under the hand has its reference bit set.
hasRefbitMut(d) == FALSE
hasRefbit(d) == d.refbit

\* line 93: the reference bit of the frame under the hand is cleared.
clearRefbitMut(d) == [d EXCEPT !.refbit = FALSE, !.dirty = FALSE]
clearRefbit(d) == [d EXCEPT !.refbit = FALSE]

\* line 102: the test, made after `pinned++`, that throws.
poolExhaustedMut(pinned) == pinned > numBufs
poolExhausted(pinned) == pinned = numBufs

\* lines 88-107: the clock sweep from `hand`; `pinned` counts the pinned
\* visits, `steps` the advances of the hand.  ok = FALSE is the throw of
\* BufferExceededException at line 103.
RECURSIVE clockSweep(_, _, _, _)
clockSweep(tbl, hand, pinned, steps) ==
  IF ~tbl[hand].valid
    THEN [ok |-> TRUE, tbl |-> tbl, hand |-> hand, steps |-> steps]
  ELSE IF hasRefbit(tbl[hand])
    THEN clockSweep([tbl EXCEPT ![hand] = clearRefbit(@)], advanceClock(hand), pinned, steps + 1)
  ELSE IF isPinned(tbl[hand])
    THEN IF poolExhausted(pinned + 1)
           THEN [ok |-> FALSE, tbl |-> tbl, hand |-> hand, steps |-> steps]
           ELSE clockSweep(tbl, advanceClock(hand), pinned + 1, steps + 1)
  ELSE [ok |-> TRUE, tbl |-> tbl, hand |-> hand, steps |-> steps]

\* lines 111-116: the write-back of a dirty victim, with the slot's content.
evictWriteMut(d, frame, content) == <<>>
evictWrite(d, frame, content) == IF d.dirty THEN <<Event("writePage", d.file, content, frame)>> ELSE <<>>

\* line 118: the victim's index entry is removed.
evictRemoveMut(ht, d) == ht
evictRemove(ht, d) == htRemove(ht, d.file, d.pageNo)

\* lines 82-127: the whole victim selection.
allocBuf(tbl, ht, pool, hand) ==
  LET s == clockSweep(tbl, advanceClock(hand), 0, 1)
      h == s.hand
      d == s.tbl[h]
  IN IF ~s.ok
       THEN [err |-> BufferExceededException, tbl |-> s.tbl, ht |-> ht, hand |-> h, frame |-> NoFrame, wasValid |-> FALSE, steps |-> s.steps, log |-> <<>>]
     ELSE IF d.valid /\ ~htHas(ht, d.file, d.pageNo)
       THEN [err |-> HashNotFoundException, tbl |-> [s.tbl EXCEPT ![h].dirty = FALSE], ht |-> ht, hand |-> h, frame |-> NoFrame, wasValid |-> TRUE, steps |-> s.steps, log |-> evictWrite(d, h, pool[h])]
     ELSE [err |-> OK, tbl |-> [s.tbl EXCEPT ![h] = BufDescClear], ht |-> IF d.valid THEN evictRemove(ht, d) ELSE ht, hand |-> h, frame |-> h, wasValid |-> d.valid, steps |-> s.steps, log |-> (IF d.valid THEN evictWrite(d, h, pool[h]) ELSE <<>>) \o <<Event("Clear", d.file, d.pageNo, h)>>]

\* ---------------------------------------------------------------- readPage
\* line 149: on a hit the function returns without assigning `page`, so the
\* caller's variable keeps the value it held before the call.
hitHandle(page, frameId) == page

\* lines 138-168.  `page` is the value of the caller's Page* variable before
\* the call (a frame's slot, or NoFrame for a null pointer).  Callers read
\* only pages that exist in the file (File::readPage is outside this class).
readPage(file, pageNo, page) ==
  LET frameId == htLookup(hashTable, file, pageNo)
  IN IF frameId # NoFrame
       THEN /\ bufDescTable' = [bufDescTable EXCEPT ![frameId].refbit = TRUE, ![frameId].pinCnt = @ + 1]
            /\ UNCHANGED <<numBufs, bufPool, hashTable, clockHand, files>>
            /\ last' = Result("readPage", file, pageNo, FALSE, BufDescClear, OK, TRUE, frameId, FALSE, 0, hitHandle(page, frameId), INVALID_NUMBER, <<>>)
       ELSE /\ pageNo \in files[file]
            /\ LET a == allocBuf(bufDescTable, hashTable, bufPool, clockHand)
               IN IF a.err # OK
                    THEN /\ bufDescTable' = a.tbl
                         /\ hashTable' = a.ht
                         /\ clockHand' = a.hand
                         /\ UNCHANGED <<numBufs, bufPool, files>>
                         /\ last' = Result("readPage", file, pageNo, FALSE, BufDescClear, a.err, FALSE, NoFrame, a.wasValid, a.steps, NoFrame, INVALID_NUMBER, a.log)
                    ELSE /\ bufPool' = [bufPool EXCEPT ![a.frame] = pageNo]
                         /\ hashTable' = htInsert(a.ht, file, pageNo, a.frame)
                         /\ bufDescTable' = [a.tbl EXCEPT ![a.frame] = BufDescSet(@, file, pageNo)]
                         /\ clockHand' = a.hand
                         /\ UNCHANGED <<numBufs, files>>
                         /\ last' = Result("readPage", file, pageNo, FALSE, BufDescClear, OK, FALSE, a.frame, a.wasValid, a.steps, a.frame, INVALID_NUMBER, a.log \o <<Event("readPage", file, pageNo, a.frame), Event("store", file, pageNo, a.frame), Event("Set", file, pageNo, a.frame)>>)

\* --------------------------------------------------------------- unPinPage
\* line 191: the decrement of the pin count.
decPinMut(n) == n
decPin(n) == n - 1

\* lines 194-197: the dirty flag is set when the caller passes dirty = true
\* and is left as it is otherwise.
setDirtyMut(old, dirty) == dirty
setDirty(old, dirty) == IF dirty THEN TRUE ELSE old

\* lines 199-201: the handler of HashNotFoundException does nothing, so the
\* call returns normally.
unPinCatchMut(e) == e
unPinCatch(e) == OK

\* lines 178-202.
unPinPage(file, pageNo, dirty) ==
  LET framdId == htLookup(hashTable, file, pageNo)
  IN /\ UNCHANGED <<numBufs, bufPool, hashTable, clockHand, files>>
     /\ IF framdId = NoFrame
          THEN /\ UNCHANGED bufDescTable
               /\ last' = Result("unPinPage", file, pageNo, dirty, BufDescClear, unPinCatch(HashNotFoundException), FALSE, NoFrame, FALSE, 0, NoFrame, INVALID_NUMBER, <<>>)
        ELSE IF bufDescTable[framdId].pinCnt = 0
          THEN /\ UNCHANGED bufDescTable
               /\ last' = Result("unPinPage", file, pageNo, dirty, BufDescClear, PageNotPinnedException, TRUE, framdId, FALSE, 0, NoFrame, INVALID_NUMBER, <<>>)
        ELSE /\ bufDescTable' = [bufDescTable EXCEPT ![framdId].pinCnt = decPin(@), ![framdId].dirty = setDirty(@, dirty)]
             /\ last' = Result("unPinPage", file, pageNo, dirty, BufDescClear, OK, TRUE, framdId, FALSE, 0, NoFrame, INVALID_NUMBER, <<>>)

\* --------------------------------------------------------------- flushFile
\* lines 215-244: the scan of the frame table from frame i on.  A throw ends
\* the scan and keeps what the earlier iterations did.
RECURSIVE flushScan(_, _, _, _, _, _)
flushScan(i, file, tbl, ht, pool, log) ==
  IF i >= numBufs
    THEN [err |-> OK, frame |-> NoFrame, tbl |-> tbl, ht |-> ht, log |-> log]
  ELSE IF tbl[i].file # file
    THEN flushScan(i + 1, file, tbl, ht, pool, log)
  ELSE IF tbl[i].pinCnt # 0
    THEN [err |-> PagePinnedException, frame |-> i, tbl |-> tbl, ht |-> ht, log |-> log]
  ELSE IF tbl[i].valid
    THEN [err |-> BadBufferException, frame |-> i, tbl |-> tbl, ht |-> ht, log |-> log]
  ELSE IF ~htHas(ht, file, tbl[i].pageNo)
    THEN [err |-> HashNotFoundException, frame |-> i, tbl |-> [tbl EXCEPT ![i].dirty = FALSE], ht |-> ht, log |-> log \o (IF tbl[i].dirty THEN <<Event("writePage", file, pool[i], i)>> ELSE <<>>)]
  ELSE flushScan(i + 1, file, [tbl EXCEPT ![i] = BufDescClear], htRemove(ht, file, tbl[i].pageNo), pool, log \o (IF tbl[i].dirty THEN <<Event("writePage", file, pool[i], i)>> ELSE <<>>) \o <<Event("Clear", file, tbl[i].pageNo, i)>>)

\* lines 213-245.
flushFile(file) ==
  LET r == flushScan(0, file, bufDescTable, hashTable, bufPool, <<>>)
  IN /\ bufDescTable' = r.tbl
     /\ hashTable' = r.ht
     /\ UNCHANGED <<numBufs, bufPool, clockHand, files>>
     /\ last' = Result("flushFile", file, INVALID_NUMBER, FALSE, BufDescClear, r.err, FALSE, r.frame, FALSE, 0, NoFrame, INVALID_NUMBER, r.log)

\* --------------------------------------------------------------- allocPage
\* lines 266-267: the page number the index entry and the descriptor are
\* given is the value of the caller's pageNo variable before the call; the
\* new page's number is assigned to it only at line 270.
installPageNo(pageNo, newPage) == pageNo

\* line 258: File::allocatePage adds the new page to the file.
fileAllocateMut(pages, newPage) == pages
fileAllocate(pages, newPage) == pages \cup {newPage}

\* lines 255-272.  `pageNo` is the value of the caller's variable before the
\* call; newPage is the number File::allocatePage gives the new page.
allocPage(file, pageNo, newPage) ==
    LET a == allocBuf(bufDescTable, hashTable, bufPool, clockHand)
        key == installPageNo(pageNo, newPage)
        io == <<Event("allocatePage", file, newPage, NoFrame)>>
    IN /\ files' = [files EXCEPT ![file] = fileAllocate(@, newPage)]
       /\ clockHand' = a.hand
       /\ UNCHANGED numBufs
       /\ IF a.err # OK
            THEN /\ bufDescTable' = a.tbl
                 /\ hashTable' = a.ht
                 /\ UNCHANGED bufPool
                 /\ last' = Result("allocPage", file, INVALID_NUMBER, FALSE, BufDescClear, a.err, FALSE, NoFrame, a.wasValid, a.steps, NoFrame, newPage, io \o a.log)
          ELSE IF htInsertThrows(a.ht, file, key)
            THEN /\ bufDescTable' = a.tbl
                 /\ hashTable' = a.ht
                 /\ bufPool' = [bufPool EXCEPT ![a.frame] = newPage]
                 /\ last' = Result("allocPage", file, key, FALSE, BufDescClear, HashAlreadyPresentException, FALSE, a.frame, a.wasValid, a.steps, NoFrame, newPage, io \o a.log \o <<Event("store", file, newPage, a.frame)>>)
          ELSE /\ bufPool' = [bufPool EXCEPT ![a.frame] = newPage]
               /\ hashTable' = htInsert(a.ht, file, key, a.frame)
               /\ bufDescTable' = [a.tbl EXCEPT ![a.frame] = BufDescSet(@, file, key)]
               /\ last' = Result("allocPage", file, key, FALSE, BufDescClear, OK, FALSE, a.frame, a.wasValid, a.steps, a.frame, newPage, io \o a.log \o <<Event("store", file, newPage, a.frame), Event("Set", file, key, a.frame)>>)

\* ------------------------------------------------------------- disposePage
\* line 290: the index entry of the disposed page is removed.
disposeRemoveMut(ht, file, PageNo) == ht
disposeRemove(ht, file, PageNo) == htRemove(ht, file, PageNo)

\* line 291: the frame of the disposed page is reset.
disposeClearMut(d) == d
disposeClear(d) == BufDescClear

\* lines 281-300.  Callers dispose of pages that exist in the file.
disposePage(file, PageNo) ==
  LET frameNo == htLookup(hashTable, file, PageNo)
  IN /\ PageNo \in files[file]
     /\ files' = [files EXCEPT ![file] = @ \ {PageNo}]
     /\ UNCHANGED <<numBufs, bufPool, clockHand>>
     /\ IF frameNo # NoFrame
          THEN /\ hashTable' = disposeRemove(hashTable, file, PageNo)
               /\ bufDescTable' = [bufDescTable EXCEPT ![frameNo] = disposeClear(@)]
               /\ last' = Result("disposePage", file, PageNo, FALSE, bufDescTable[frameNo], OK, TRUE, frameNo, FALSE, 0, NoFrame, INVALID_NUMBER, <<Event("Clear", file, PageNo, frameNo), Event("deletePage", file, PageNo, NoFrame)>>)
          ELSE /\ UNCHANGED <<hashTable, bufDescTable>>
               /\ last' = Result("disposePage", file, PageNo, FALSE, BufDescClear, OK, FALSE, NoFrame, FALSE, 0, NoFrame, INVALID_NUMBER, <<Event("deletePage", file, PageNo, NoFrame)>>)

\* ----------------------------------------------------------------- ~BufMgr
\* lines 50-58: the destructor's scan from frame i on; every frame that is
\* dirty and valid is written to its file and has its dirty flag cleared.
RECURSIVE destructorScan(_, _, _, _)
destructorScan(i, tbl, pool, log) ==
  IF i >= numBufs
    THEN [tbl |-> tbl, log |-> log]
  ELSE IF tbl[i].dirty /\ tbl[i].valid
    THEN destructorScan(i + 1, [tbl EXCEPT ![i].dirty = FALSE], pool, log \o <<Event("writePage", tbl[i].file, pool[i], i)>>)
  ELSE destructorScan(i + 1, tbl, pool, log)

\* lines 47-65.  The state kept after the call is the one the arrays held
\* when they were deallocated; no operation follows.
BufMgrDestructor ==
  LET r == destructorScan(0, bufDescTable, bufPool, <<>>)
  IN /\ bufDescTable' = r.tbl
     /\ UNCHANGED <<numBufs, bufPool, hashTable, clockHand, files>>
     /\ last' = Result("~BufMgr", NoFile, INVALID_NUMBER, FALSE, BufDescClear, OK, FALSE, NoFrame, FALSE, 0, NoFrame, INVALID_NUMBER, r.log)

\* --------------------------------------------------------------- observers
\* The pin count of page (file, pageNo): that of its frame, 0 when uncached.
pinOf(file, pageNo) == IF htHas(hashTable, file, pageNo) THEN bufDescTable[htLookup(hashTable, file, pageNo)].pinCnt ELSE 0

\* Every frame of the pool holds a pinned page.
AllPinned == \A i \in Frames : bufDescTable[i].valid /\ bufDescTable[i].pinCnt > 0

\* The positions of the log at which frame i's content is written to a file.
WritesOf(log, i) == {k \in 1..Len(log) : log[k].ev = "writePage" /\ log[k].frame = i}

\* The file calls of kind ev in the log.
Calls(log, ev) == {k \in 1..Len(log) : log[k].ev = ev}

NoScen == [phase |-> "none", op |-> "none", file |-> NoFile, pageNo |-> INVALID_NUMBER, err |-> OK, ufile |-> NoFile, upage |-> INVALID_NUMBER]

NoPins == [started |-> FALSE, fetches |-> 0, unpins |-> 0, unpinHits |-> 0]

\* -------------------------------------------------- BufMgr::BufMgr (Init)
Constructed ==
  /\ numBufs \in 1..MaxBufs
  /\ bufDescTable = [i \in 0..(numBufs - 1) |-> BufDescClear]
  /\ bufPool = [i \in 0..(numBufs - 1) |-> INVALID_NUMBER]
  /\ hashTable = {}
  /\ clockHand = numBufs - 1
  /\ last = Result("BufMgr", NoFile, INVALID_NUMBER, FALSE, BufDescClear, OK, FALSE, NoFrame, FALSE, 0, NoFrame, INVALID_NUMBER, <<>>)

Init ==
  /\ Constructed
  /\ files = [f \in Files |-> (1..InitPages) \cap PagesOf(f)]
  /\ pins = NoPins
  /\ scen = NoScen

\* ------------------------------------------------ the callers' operations
DoReadPage == \E f \in Files : \E p \in PagesOf(f), h \in Frames \cup {NoFrame} : pinOf(f, p) < MaxPin /\ readPage(f, p, h) /\ UNCHANGED <<pins, scen>>

DoUnPinPage == \E f \in Files : \E p \in PagesOf(f), d \in BOOLEAN : unPinPage(f, p, d) /\ UNCHANGED <<pins, scen>>

DoFlushFile == \E f \in Files : flushFile(f) /\ UNCHANGED <<pins, scen>>

DoAllocPage == \E f \in Files : \E g \in PagesOf(f), n \in PagesOf(f) \ files[f] : allocPage(f, g, n) /\ UNCHANGED <<pins, scen>>

DoDisposePage == \E f \in Files : \E p \in PagesOf(f) : disposePage(f, p) /\ UNCHANGED <<pins, scen>>

Next == DoReadPage \/ DoUnPinPage \/ DoFlushFile \/ DoAllocPage \/ DoDisposePage

Spec == Init /\ [][Next]_vars

\* ------------------------------------------------- lifetime with shutdown
\* The manager's whole lifetime: the operations of Next while the object is
\* alive, ended by the destructor.
Alive == last.op # "~BufMgr"

DoDestroy == Alive /\ BufMgrDestructor /\ UNCHANGED <<pins, scen>>

NextLife == (Alive /\ Next) \/ DoDestroy

SpecLife == Init /\ [][NextLife]_vars

\* ------------------------------------------ readPage, unPinPage, flushFile
\* The three operations alone, on files whose pages all exist.
InitFlush ==
  /\ Constructed
  /\ files = [f \in Files |-> PagesOf(f)]
  /\ pins = NoPins
  /\ scen = NoScen

NextFlush == DoReadPage \/ DoUnPinPage \/ DoFlushFile

SpecFlush == InitFlush /\ [][NextFlush]_vars

\* ------------------------------------------- pin accounting of one page
\* Calls of readPage and unPinPage on the one page PinKey, after any calls
\* of readPage and unPinPage on the other file's pages; pins counts the
\* calls on PinKey that returned normally.
PinKey == [file |-> "F1", pageNo |-> InitPages]

PinSetupRead == ~pins.started /\ \E p \in PagesOf("F2"), h \in Frames \cup {NoFrame} : pinOf("F2", p) < MaxPin /\ readPage("F2", p, h) /\ UNCHANGED <<pins, scen>>

PinSetupUnPin == ~pins.started /\ \E p \in PagesOf("F2"), d \in BOOLEAN : unPinPage("F2", p, d) /\ UNCHANGED <<pins, scen>>

PinRead ==
  /\ pins.fetches + pins.unpins < MaxCalls
  /\ pinOf(PinKey.file, PinKey.pageNo) < MaxPinAcct
  /\ \E h \in Frames \cup {NoFrame} : readPage(PinKey.file, PinKey.pageNo, h)
  /\ pins' = [pins EXCEPT !.started = TRUE, !.fetches = IF last'.err = OK THEN @ + 1 ELSE @]
  /\ UNCHANGED scen

PinUnPin ==
  /\ pins.fetches + pins.unpins < MaxCalls
  /\ \E d \in BOOLEAN : unPinPage(PinKey.file, PinKey.pageNo, d)
  /\ pins' = [pins EXCEPT !.started = TRUE, !.unpins = IF last'.err = OK THEN @ + 1 ELSE @, !.unpinHits = IF last'.err = OK /\ last'.hit THEN @ + 1 ELSE @]
  /\ UNCHANGED scen

NextPin == PinSetupRead \/ PinSetupUnPin \/ PinRead \/ PinUnPin

SpecPin == Init /\ [][NextPin]_vars

\* -------------------------------------------------- exhaustion scenario
\* A fresh pool is filled with pinned pages (phase "fill"); with every frame
\* pinned a further page is requested; one cached page is then unpinned down
\* to pin count 0 and the same request is repeated.
InitExh ==
  /\ Constructed
  /\ \E k \in InitPages..(ScenPages - 1) : files = [f \in Files |-> IF f = "F1" THEN 1..k ELSE 1..InitPages]
  /\ pins = NoPins
  /\ scen = [NoScen EXCEPT !.phase = "fill"]

ExhFill ==
  /\ scen.phase = "fill"
  /\ \E f \in Files : \E p \in ScenPagesOf(f), h \in Frames \cup {NoFrame} : (~AllPinned \/ htHas(hashTable, f, p)) /\ pinOf(f, p) < MaxPin /\ readPage(f, p, h)
  /\ UNCHANGED <<pins, scen>>

ExhRequestRead ==
  /\ scen.phase = "fill"
  /\ AllPinned
  /\ \E f \in Files : \E p \in ScenPagesOf(f), h \in Frames \cup {NoFrame} : ~htHas(hashTable, f, p) /\ readPage(f, p, h) /\ scen' = [scen EXCEPT !.phase = "requested", !.op = "readPage", !.file = f, !.pageNo = p, !.err = last'.err]
  /\ UNCHANGED pins

ExhRequestAlloc ==
  /\ scen.phase = "fill"
  /\ AllPinned
  /\ \E f \in Files : \E g \in ScenPagesOf(f), n \in ScenPagesOf(f) \ files[f] : allocPage(f, g, n) /\ scen' = [scen EXCEPT !.phase = "requested", !.op = "allocPage", !.file = f, !.pageNo = g, !.err = last'.err]
  /\ UNCHANGED pins

ExhUnPin ==
  /\ scen.phase \in {"requested", "unpinning"}
  /\ \E e \in hashTable, d \in BOOLEAN : (scen.phase = "unpinning" => (e.file = scen.ufile /\ e.pageNo = scen.upage)) /\ pinOf(e.file, e.pageNo) > 0 /\ unPinPage(e.file, e.pageNo, d) /\ scen' = [scen EXCEPT !.phase = "unpinning", !.ufile = e.file, !.upage = e.pageNo]
  /\ UNCHANGED pins

ExhRetryRead ==
  /\ scen.phase = "unpinning" /\ scen.op = "readPage"
  /\ pinOf(scen.ufile, scen.upage) = 0
  /\ \E h \in Frames \cup {NoFrame} : readPage(scen.file, scen.pageNo, h)
  /\ scen' = [scen EXCEPT !.phase = "retried"]
  /\ UNCHANGED pins

ExhRetryAlloc ==
  /\ scen.phase = "unpinning" /\ scen.op = "allocPage"
  /\ pinOf(scen.ufile, scen.upage) = 0
  /\ \E n \in ScenPagesOf(scen.file) \ files[scen.file] : allocPage(scen.file, scen.pageNo, n)
  /\ scen' = [scen EXCEPT !.phase = "retried"]
  /\ UNCHANGED pins

NextExh == ExhFill \/ ExhRequestRead \/ ExhRequestAlloc \/ ExhUnPin \/ ExhRetryRead \/ ExhRetryAlloc

SpecExh == InitExh /\ [][NextExh]_vars

\* ================================================================= claims
\* The step just taken is a call of one of the operations in ops.
StepOf(ops) == last'.op \in ops

\* The step just taken obtained frame i from allocBuf.
Selected(i) == StepOf({"readPage", "allocPage"}) /\ ~last'.hit /\ last'.frame = i

\* Frame i holds the same page before and after the step, and the index still
\* maps that page to it.
Kept(i) == /\ bufDescTable'[i].valid
           /\ bufDescTable'[i].file = bufDescTable[i].file
           /\ bufDescTable'[i].pageNo = bufDescTable[i].pageNo
           /\ htLookup(hashTable', bufDescTable[i].file, bufDescTable[i].pageNo) = i

\* C1: the frame allocBuf selects is invalid or has pinCnt = 0 when it is
\* selected, and no readPage, allocPage, unPinPage or flushFile step evicts a
\* frame whose pinCnt is above 0: such a frame keeps its page and its index
\* entry.
C1_NoPinnedVictim == [][\A i \in Frames : /\ Selected(i) => (~bufDescTable[i].valid \/ bufDescTable[i].pinCnt = 0)
                                          /\ (StepOf({"readPage", "allocPage", "unPinPage", "flushFile"}) /\ bufDescTable[i].valid /\ bufDescTable[i].pinCnt > 0) => Kept(i)]_vars

\* C1 witness: a selection that evicted a valid frame after passing over
\* another frame, which is still pinned.
C1_Witness == /\ last.op \in {"readPage", "allocPage"} /\ last.err = OK /\ last.wasValid /\ last.steps > 1
              /\ \E i \in Frames : i # last.frame /\ bufDescTable[i].valid /\ bufDescTable[i].pinCnt > 0 /\ ~bufDescTable[i].refbit

\* C2: after every operation the index and the frame table agree: one entry
\* per key, every entry points to a valid frame holding that key, and every
\* valid frame has the entry of its own key.
C2_IndexMatchesFrames ==
  /\ \A e1, e2 \in hashTable : (e1.file = e2.file /\ e1.pageNo = e2.pageNo) => e1 = e2
  /\ \A e \in hashTable : /\ e.frameNo \in Frames
                          /\ bufDescTable[e.frameNo].valid
                          /\ bufDescTable[e.frameNo].file = e.file
                          /\ bufDescTable[e.frameNo].pageNo = e.pageNo
  /\ \A i \in Frames : bufDescTable[i].valid => Cardinality({e \in hashTable : e.frameNo = i}) = 1

\* C2 witness: a cached page was disposed of while another page stays cached.
C2_Witness == last.op = "disposePage" /\ last.hit /\ hashTable # {} /\ \E i \in Frames : ~bufDescTable[i].valid

\* The frame of the page PinKey, NoFrame while it is uncached.
PinFrame == htLookup(hashTable, PinKey.file, PinKey.pageNo)

\* An unPinPage of PinKey issued at pin count 0 throws PageNotPinnedException
\* and leaves the pin count at 0.
UnPinAtZero == (last'.op = "unPinPage" /\ PinFrame # NoFrame /\ bufDescTable[PinFrame].pinCnt = 0) => (last'.err = PageNotPinnedException /\ bufDescTable'[PinFrame].pinCnt = 0)

\* C3 (as stated): after any calls of readPage and unPinPage on one page,
\* uncached at the start, the frame's pin count is the number of readPage
\* calls that returned normally minus the number of unPinPage calls that
\* returned normally, and an unPinPage at pin count 0 throws
\* PageNotPinnedException and leaves the count at 0.
C3_PinCountAsStated == [](PinFrame # NoFrame => bufDescTable[PinFrame].pinCnt = pins.fetches - pins.unpins) /\ [][UnPinAtZero]_vars

\* C3 (amended): the pin count is the number of readPage calls that returned
\* normally minus the number of unPinPage calls that found the page cached
\* and returned normally (an unPinPage of an uncached page returns normally
\* and changes nothing); an unPinPage at pin count 0 throws
\* PageNotPinnedException and leaves the count at 0.
C3_PinCount == [](/\ PinFrame # NoFrame => bufDescTable[PinFrame].pinCnt = pins.fetches - pins.unpinHits
                  /\ PinFrame = NoFrame => pins.fetches = 0) /\ [][UnPinAtZero]_vars

\* C3 witness: the page was pinned twice and unpinned down to 0, and a
\* further unPinPage has just failed.
C3_Witness == /\ pins.fetches >= 2 /\ pins.unpinHits = pins.fetches
              /\ last.op = "unPinPage" /\ last.err = PageNotPinnedException
              /\ PinFrame # NoFrame /\ bufDescTable[PinFrame].pinCnt = 0

\* C4: with every frame of a freshly filled pool pinned, a request for a
\* further page (readPage of an uncached page, or allocPage) throws
\* BufferExceededException, and once one cached page has been unpinned down
\* to pin count 0 the same request, repeated, returns normally.
C4_ExhaustedThenRetry == /\ scen.phase \in {"requested", "unpinning", "retried"} => scen.err = BufferExceededException
                         /\ scen.phase = "retried" => last.err = OK

\* C5: a readPage that finds the page in the index hands the caller the slot
\* of the frame the index maps the page to, and reads nothing from the file.
C5_HitReturnsSlot == (last.op = "readPage" /\ last.hit) => (last.handle = htLookup(hashTable, last.file, last.pageNo) /\ Calls(last.log, "readPage") = {})

\* The step just taken evicted the page of frame i.
Evicted(i) == Selected(i) /\ last'.wasValid

\* C6: a valid dirty frame chosen as the victim is written to its file
\* exactly once, with the content of its slot, before its descriptor is
\* cleared and its slot overwritten; while it stays cached and dirty, no
\* step writes it.
C6_DirtyVictimWrittenOnce == [][\A i \in Frames : (bufDescTable[i].valid /\ bufDescTable[i].dirty) =>
                                  /\ Evicted(i) => /\ Cardinality(WritesOf(last'.log, i)) = 1
                                                   /\ \A k \in WritesOf(last'.log, i) : /\ last'.log[k] = Event("writePage", bufDescTable[i].file, bufPool[i], i)
                                                                                        /\ \A j \in 1..Len(last'.log) : (last'.log[j].frame = i /\ last'.log[j].ev \in {"Clear", "store", "Set"}) => k < j
                                  /\ (~Evicted(i) /\ bufDescTable'[i].valid /\ bufDescTable'[i].dirty) => WritesOf(last'.log, i) = {}]_vars

\* C6 witness: a dirty page was evicted, written back, and its frame reused.
C6_Witness == /\ last.op \in {"readPage", "allocPage"} /\ last.err = OK /\ last.wasValid
              /\ WritesOf(last.log, last.frame) # {}
              /\ bufDescTable[last.frame].valid /\ ~bufDescTable[last.frame].dirty

\* C7: a flushFile of a file of which some cached page is pinned throws
\* PagePinnedException, wherever the file's frames lie, and writes nothing.
C7_FlushPinnedThrowsPagePinned == [][(last'.op = "flushFile" /\ \E i \in Frames : bufDescTable[i].valid /\ bufDescTable[i].file = last'.file /\ bufDescTable[i].pinCnt > 0) => (last'.err = PagePinnedException /\ Calls(last'.log, "writePage") = {})]_vars

\* C8: a flushFile of a file none of whose cached pages is pinned returns
\* normally; each of the file's dirty frames is written once, every frame of
\* the file is reset and loses its index entry, other frames are unchanged.
C8_FlushUnpinnedSucceeds == [][(last'.op = "flushFile" /\ \A i \in Frames : (bufDescTable[i].valid /\ bufDescTable[i].file = last'.file) => bufDescTable[i].pinCnt = 0) =>
                                 /\ last'.err = OK
                                 /\ \A e \in hashTable' : e.file # last'.file
                                 /\ bufPool' = bufPool
                                 /\ \A i \in Frames : IF bufDescTable[i].valid /\ bufDescTable[i].file = last'.file
                                                        THEN ~bufDescTable'[i].valid /\ Cardinality(WritesOf(last'.log, i)) = (IF bufDescTable[i].dirty THEN 1 ELSE 0)
                                                        ELSE bufDescTable'[i] = bufDescTable[i] /\ WritesOf(last'.log, i) = {}]_vars

\* C9: an operation returns normally or throws BufferExceededException,
\* PageNotPinnedException or PagePinnedException, and nothing else.
C9_OnlyDocumentedErrors == last.err \in {OK, BufferExceededException, PageNotPinnedException, PagePinnedException}

\* C10: after allocPage returns page number p, its frame's descriptor holds
\* (file, p), valid, with pinCnt 1, the index maps (file, p) to the frame and
\* the frame's slot holds page p.
C10_AllocInstallsNewPage == (last.op = "allocPage" /\ last.err = OK) =>
                               /\ bufDescTable[last.frame].valid
                               /\ bufDescTable[last.frame].file = last.file
                               /\ bufDescTable[last.frame].pageNo = last.newPage
                               /\ bufDescTable[last.frame].pinCnt = 1
                               /\ htLookup(hashTable, last.file, last.newPage) = last.frame
                               /\ bufPool[last.frame] = last.newPage

\* C11: unPinPage of a page that has no index entry returns without error
\* and leaves every frame descriptor, every slot, the index, the clock hand
\* and the files as they were, whichever value `dirty` has.
C11_UnPinUncachedNoOp == [][(last'.op = "unPinPage" /\ ~htHas(hashTable, last'.file, last'.pageNo)) =>
                              (last'.err = OK /\ UNCHANGED <<bufDescTable, bufPool, hashTable, clockHand, files>>)]_vars

\* An unPinPage with dirty = true on an uncached page, while another page
\* is cached and pinned.
C11_Witness == /\ last.op = "unPinPage" /\ last.dirty /\ last.err = OK
               /\ ~htHas(hashTable, last.file, last.pageNo)
               /\ \E i \in Frames : bufDescTable[i].valid /\ bufDescTable[i].pinCnt > 0 /\ ~bufDescTable[i].dirty

\* The frame that holds the page a disposePage step is given, in the state
\* before the step (NoFrame when the page is not cached).
DisposedFrame == htLookup(hashTable, last'.file, last'.pageNo)

\* C12: disposePage never fails because of the cache state.  A cached page,
\* whatever its pin count and dirty flag, loses its index entry and has its
\* frame reset (invalid, pin count 0, not dirty) without any writePage;
\* cached or not, deletePage is issued exactly once, for that page; every
\* other frame, every slot and every other index entry is unchanged.
C12_DisposeIgnoresCacheState == [][last'.op = "disposePage" =>
    /\ last'.err = OK
    /\ Calls(last'.log, "writePage") = {}
    /\ Cardinality(Calls(last'.log, "deletePage")) = 1
    /\ \A k \in Calls(last'.log, "deletePage") : last'.log[k].file = last'.file /\ last'.log[k].pageNo = last'.pageNo
    /\ files' = [files EXCEPT ![last'.file] = @ \ {last'.pageNo}]
    /\ ~htHas(hashTable', last'.file, last'.pageNo)
    /\ hashTable' = {e \in hashTable : ~(e.file = last'.file /\ e.pageNo = last'.pageNo)}
    /\ DisposedFrame # NoFrame => (~bufDescTable'[DisposedFrame].valid /\ bufDescTable'[DisposedFrame].pinCnt = 0 /\ ~bufDescTable'[DisposedFrame].dirty)
    /\ \A j \in Frames \ {DisposedFrame} : bufDescTable'[j] = bufDescTable[j]
    /\ bufPool' = bufPool]_vars

\* A disposePage of a page that was cached, pinned and dirty, while another
\* page stays cached.
C12_Witness == /\ last.op = "disposePage" /\ last.hit /\ last.err = OK
               /\ last.before.valid /\ last.before.pinCnt > 0 /\ last.before.dirty
               /\ ~bufDescTable[last.frame].valid
               /\ \E j \in Frames : bufDescTable[j].valid

\* The frame of the page the scenario unpins, in the state before a step.
UnpinnedFrame == htLookup(hashTable, scen.ufile, scen.upage)

\* The retry of a fetch in the scenario: the step from "unpinning" to
\* "retried" of a request made with readPage.
RetryFetch == scen.phase = "unpinning" /\ scen'.phase = "retried" /\ scen.op = "readPage"

\* C13: in a fresh pool the k-th page loaded goes to frame k-1 with pin
\* count 1 (P1 to frame 0, P2 to frame 1); a fetch of a further page while
\* every frame is pinned fails with BufferExceededException; after the page
\* of one frame is unpinned the same fetch succeeds, the new page takes that
\* frame (frame 0 for P1), the unpinned page has no index entry any more and
\* every other page is still cached in its frame.
C13_TwoFrameScenario ==
    /\ [](/\ scen.phase = "fill" => \A i \in Frames : bufDescTable[i].valid <=> i < Cardinality(hashTable)
          /\ (scen.phase = "fill" /\ last.op = "readPage" /\ ~last.hit) => (last.err = OK /\ last.frame = Cardinality(hashTable) - 1 /\ bufDescTable[last.frame].pinCnt = 1)
          /\ (scen.phase \in {"requested", "unpinning", "retried"} /\ scen.op = "readPage") => scen.err = BufferExceededException)
    /\ [][RetryFetch => /\ last'.err = OK
                        /\ last'.frame = UnpinnedFrame
                        /\ ~htHas(hashTable', scen.ufile, scen.upage)
                        /\ htLookup(hashTable', scen.file, scen.pageNo) = UnpinnedFrame
                        /\ bufDescTable'[UnpinnedFrame].pinCnt = 1
                        /\ \A j \in Frames \ {UnpinnedFrame} : /\ bufDescTable'[j].valid
                                                               /\ bufDescTable'[j].file = bufDescTable[j].file
                                                               /\ bufDescTable'[j].pageNo = bufDescTable[j].pageNo
                                                               /\ bufDescTable'[j].pinCnt = bufDescTable[j].pinCnt
                                                               /\ htLookup(hashTable', bufDescTable[j].file, bufDescTable[j].pageNo) = j]_vars

\* Pool of two frames: the first request failed, the retry after unpinning
\* the page of frame 0 put the requested page into frame 0 and the page of
\* frame 1 is still cached and pinned.
C13_Witness == /\ numBufs = 2 /\ scen.phase = "retried" /\ scen.op = "readPage" /\ scen.err = BufferExceededException
               /\ last.err = OK /\ last.frame = 0 /\ htLookup(hashTable, scen.file, scen.pageNo) = 0
               /\ ~htHas(hashTable, scen.ufile, scen.upage)
               /\ bufDescTable[1].valid /\ bufDescTable[1].pinCnt = 1

\* C14: victim selection fails only when every frame is valid and pinned: a
\* readPage miss or an allocPage made in a state that holds an invalid frame
\* or a frame with pin count 0 does not throw BufferExceededException.
C14_ExhaustedOnlyWhenAllPinned == [][(StepOf({"readPage", "allocPage"}) /\ ~last'.hit /\ \E i \in Frames : ~bufDescTable[i].valid \/ bufDescTable[i].pinCnt = 0) =>
                                       last'.err # BufferExceededException]_vars

\* C15: every victim selection terminates, with a frame or with
\* BufferExceededException, after at most 2 x numBufs advances of the clock
\* hand (one per frame visited), whatever the valid, refbit and pinCnt values
\* and the hand position it starts from.
C15_SweepBounded == (last.op \in {"readPage", "allocPage"} /\ ~last.hit) =>
                       /\ last.steps >= 1 /\ last.steps <= 2 * numBufs
                       /\ IF last.err = BufferExceededException THEN last.frame = NoFrame ELSE last.frame \in Frames

\* A selection that used all 2 x numBufs visits in a pool of two frames:
\* every frame referenced and pinned.
C15_Witness == /\ numBufs = 2 /\ last.op \in {"readPage", "allocPage"} /\ ~last.hit
               /\ last.steps = 2 * numBufs /\ last.err = BufferExceededException

\* The number of the visit at which a sweep that starts from the hand of the
\* state before the step first reaches frame i (line 86 makes visit 1 fall on
\* the frame after the hand).
FirstVisit(i) == ((i + numBufs - clockHand - 1) % numBufs) + 1

\* A step that runs a victim selection: a readPage miss or an allocPage.
Sweeps == StepOf({"readPage", "allocPage"}) /\ ~last'.hit

\* C16: a valid frame whose refbit is set when the hand reaches it is not
\* chosen on that visit: the refbit is cleared and the hand advances.  A valid
\* frame is chosen only on a visit at which its refbit is clear and its pin
\* count is 0: a victim that was unreferenced is taken on the first visit, a
\* victim that was referenced is passed over exactly once and taken on the
\* second visit, one turn of the clock later.
C16_SecondChance == [][\A i \in Frames :
    /\ (Selected(i) /\ bufDescTable[i].valid /\ ~bufDescTable[i].refbit) => (bufDescTable[i].pinCnt = 0 /\ last'.steps = FirstVisit(i))
    /\ (Selected(i) /\ bufDescTable[i].valid /\ bufDescTable[i].refbit) => (bufDescTable[i].pinCnt = 0 /\ last'.steps = FirstVisit(i) + numBufs)
    /\ (Sweeps /\ bufDescTable[i].valid /\ bufDescTable[i].refbit /\ FirstVisit(i) <= last'.steps /\ last'.frame # i) => (bufDescTable'[i].valid /\ ~bufDescTable'[i].refbit)
    /\ (Sweeps /\ bufDescTable[i].valid /\ bufDescTable[i].refbit /\ FirstVisit(i) > last'.steps) => bufDescTable'[i].refbit]_vars

\* A victim that held a page and was taken on the second visit, in a pool of
\* two frames: its refbit was set when the hand first reached it.
C16_Witness == /\ numBufs = 2 /\ last.op \in {"readPage", "allocPage"} /\ ~last.hit /\ last.err = OK
               /\ last.wasValid /\ last.steps > numBufs

\* C17: the clock hand is numBufs - 1 right after construction and always in
\* 0..numBufs-1; only victim selection moves it: a readPage hit, unPinPage,
\* disposePage and flushFile leave it where it is, and a selection starts one
\* past the place the previous one stopped at and stops `steps` frames on.
C17_ClockHand ==
    /\ [](clockHand \in Frames /\ (last.op = "BufMgr" => clockHand = numBufs - 1))
    /\ [][/\ ~Sweeps => clockHand' = clockHand
          /\ Sweeps => clockHand' = (clockHand + last'.steps) % numBufs]_vars

\* A flushFile, unPinPage or disposePage made while the hand stands on
\* frame 0 of a pool of two frames, where an earlier selection left it.
C17_Witness == /\ numBufs = 2 /\ clockHand = 0 /\ last.op \in {"flushFile", "unPinPage", "disposePage"}
               /\ \E i \in Frames : bufDescTable[i].valid

\* C18: the dirty flag is sticky.  unPinPage with dirty = true leaves the
\* frame dirty; a readPage hit and an unPinPage with dirty = false leave a
\* dirty frame dirty; the flag of a dirty cached page becomes false only at a
\* step that writes the frame's content to the page's file with writePage
\* (eviction, flushFile, the destructor) or at the disposePage of that page.
C18_DirtySticky == [][\A i \in Frames :
    /\ (last'.op = "unPinPage" /\ last'.err = OK /\ last'.hit /\ last'.frame = i /\ last'.dirty) => bufDescTable'[i].dirty
    /\ (bufDescTable[i].valid /\ bufDescTable[i].dirty /\ (last'.op = "unPinPage" \/ (last'.op = "readPage" /\ last'.hit))) => (bufDescTable'[i].valid /\ bufDescTable'[i].dirty)
    /\ (bufDescTable[i].valid /\ bufDescTable[i].dirty /\ ~bufDescTable'[i].dirty) =>
          \/ \E k \in WritesOf(last'.log, i) : last'.log[k].file = bufDescTable[i].file /\ last'.log[k].pageNo = bufPool[i]
          \/ (last'.op = "disposePage" /\ DisposedFrame = i)]_vars

\* An unPinPage with dirty = false on a page that an earlier unPinPage had
\* marked dirty: the frame is still dirty.
C18_Witness == /\ last.op = "unPinPage" /\ last.hit /\ last.err = OK /\ ~last.dirty
               /\ bufDescTable[last.frame].valid /\ bufDescTable[last.frame].dirty

\* C19: a readPage that fails with BufferExceededException evicts nothing: the
\* index, every frame's valid, file, pageNo, pinCnt and dirty, every slot and
\* the files are as before the call, and no writePage or readPage was issued
\* on a file; only reference bits and the clock hand may differ.
C19_FailedFetchEvictsNothing == [][(last'.op = "readPage" /\ last'.err = BufferExceededException) =>
    /\ hashTable' = hashTable
    /\ bufPool' = bufPool
    /\ files' = files
    /\ last'.log = <<>>
    /\ \A i \in Frames : bufDescTable'[i] = [bufDescTable[i] EXCEPT !.refbit = bufDescTable'[i].refbit]]_vars

\* A failed readPage in a pool of two frames that holds a dirty page; the
\* sweep went round and cleared reference bits.
C19_Witness == /\ numBufs = 2 /\ last.op = "readPage" /\ last.err = BufferExceededException /\ last.steps > numBufs
               /\ \E i \in Frames : bufDescTable[i].valid /\ bufDescTable[i].dirty
               /\ \A i \in Frames : bufDescTable[i].valid /\ ~bufDescTable[i].refbit

\* C20 as stated: an allocPage that fails with BufferExceededException leaves
\* the file unchanged (no new page is allocated in it).
C20_FailedAllocLeavesFile == [][(last'.op = "allocPage" /\ last'.err = BufferExceededException) => files' = files]_vars

\* C20: an allocPage that fails with BufferExceededException has already
\* allocated its new page: the file holds exactly one page more than before
\* the call, the other files are unchanged, no index entry is added, and the
\* cache is changed as by a failed readPage (reference bits and hand only).
C20_FailedAllocLeaksPage == [][(last'.op = "allocPage" /\ last'.err = BufferExceededException) =>
    /\ last'.newPage \notin files[last'.file]
    /\ files' = [files EXCEPT ![last'.file] = @ \cup {last'.newPage}]
    /\ Cardinality(Calls(last'.log, "allocatePage")) = 1
    /\ hashTable' = hashTable
    /\ bufPool' = bufPool
    /\ \A i \in Frames : bufDescTable'[i] = [bufDescTable[i] EXCEPT !.refbit = bufDescTable'[i].refbit]]_vars

\* A failed allocPage: every frame pinned, and the file holds the page the
\* call allocated although no frame caches it.
C20_Witness == /\ last.op = "allocPage" /\ last.err = BufferExceededException
               /\ last.newPage \in files[last.file] /\ ~htHas(hashTable, last.file, last.newPage)
               /\ AllPinned

====
